---- MODULE Spec2Model ----
(***************************************************************************)
(* Model of src/retrieval.py: open_book_search, a Wikipedia client whose   *)
(* inner function _open_book_search_cached is memoised by                  *)
(* functools.lru_cache(maxsize=128) and whose outer function hands the     *)
(* caller deep copies of the cached records.                               *)
(*                                                                         *)
(* Python objects that can be aliased (the record dicts) live in `heap`;   *)
(* a tuple or list of records is a sequence of heap addresses.  The        *)
(* network is the environment: each call draws the response to its search  *)
(* request and to its i-th summary request from a finite set.              *)
(***************************************************************************)
EXTENDS Integers, Sequences, FiniteSets, TLC

\* ---------------------------------------------------------------- bounds
MaxResults == 2    \* longest title / url array the search endpoint returns
MaxHeld == 2       \* how many returned lists the caller keeps references to

\* ------------------------------------------------------ program constants
maxsize == 128             \* @lru_cache(maxsize=128)
n_results_default == 3     \* def open_book_search(query, n_results=3)

\* ------------------------------------------------------------ value sets
Queries == {"", "a"}
Titles == {"A", "B"}
Extracts == {"sA", "sB"}

Key(q, n) == [query |-> q, n_results |-> n]
NoKey == Key("", 0)
\* the calls open_book_search(q)
Keys == {Key(q, n_results_default) : q \in Queries}
\* ... and the call open_book_search("", 1)
WideKeys == Keys \cup {Key("", 1)}

Min(a, b) == IF a <= b THEN a ELSE b

RECURSIVE SeqsUpTo(_, _)
\* all sequences over S of length 0..n
SeqsUpTo(S, n) ==
    IF n = 0 THEN {<<>>}
    ELSE LET shorter == SeqsUpTo(S, n - 1)
         IN  shorter \cup {Append(s, x) : s \in {t \in shorter : Len(t) = n - 1}, x \in S}

\* ------------------------------------------------------- HTTP responses
\* What requests.get(...) gives: net # "ok" is an exception raised by
\* requests.get itself (ConnectionError, Timeout); otherwise a response with
\* a status code and a body.  A body is not JSON, a JSON array (elems), or a
\* JSON object (of which only the "extract" member is ever read: extract is
\* <<s>> when the member is present with value s, <<>> when absent).
Body(kind, elems, extract) == [kind |-> kind, elems |-> elems, extract |-> extract]
NotJson == Body("notjson", <<>>, <<>>)
JsonObject(extract) == Body("object", <<>>, extract)
JsonArray(elems) == Body("array", elems, <<>>)
Response(net, status, body) == [net |-> net, status |-> status, body |-> body]
Raises(net) == Response(net, 0, NotJson)

\* the opensearch payload [query, [titles], [descriptions], [urls]]
OpenSearch(q, titles, urls) == JsonArray(<<(<<q>>), titles, <<>>, urls>>)

\* ----------------------------------------- _open_book_search_cached body
Request(endpoint, arg, limit) == [endpoint |-> endpoint, arg |-> arg, limit |-> limit]
Exchange(req, resp) == [req |-> req, resp |-> resp]
Record(title, url, summary) == [title |-> title, url |-> url, summary |-> summary]

\* lines 31-38: TRUE when the try block ends in `except Exception`
\* (requests.get raised, raise_for_status raised on a 4xx/5xx status, or
\* resp.json() raised on a body that is not JSON)
SearchExcept(resp) ==
    \/ resp.net # "ok"
    \/ resp.status >= 400
    \/ resp.body.kind = "notjson"

\* lines 40-41: data[1] and data[3] are evaluated outside the try block; a
\* JSON object has string keys only (KeyError), a JSON array shorter than 4
\* has no index 3 (IndexError)
SubscriptRaises(data) ==
    \/ data.kind = "object"
    \/ data.kind = "array" /\ Len(data.elems) < 4

\* SummaryOf without the status check of line 50
SummaryOfAnyStatus(s_resp) ==
    IF s_resp.net # "ok" THEN ""
    ELSE IF s_resp.body.kind # "object" THEN ""
    ELSE IF s_resp.body.extract = <<>> THEN ""
    ELSE s_resp.body.extract[1]

\* lines 44-53: the summary of one title
SummaryOf(s_resp) ==
    IF s_resp.net # "ok" THEN ""                     \* requests.get raised
    ELSE IF s_resp.status # 200 THEN ""              \* summary stays ""
    ELSE IF s_resp.body.kind = "notjson" THEN ""     \* s_resp.json() raised
    ELSE IF s_resp.body.kind = "array" THEN ""       \* list has no .get
    ELSE IF s_resp.body.extract = <<>> THEN ""       \* .get("extract", "")
    ELSE s_resp.body.extract[1]

RECURSIVE SummaryLoopPrepend(_, _, _, _, _, _)
\* SummaryLoop with results.insert(0, ...) in place of results.append(...)
SummaryLoopPrepend(titles, urls, s_resps, i, results, log) ==
    IF i > Min(Len(titles), Len(urls)) THEN [results |-> results, log |-> log]
    ELSE SummaryLoopPrepend(titles, urls, s_resps, i + 1,
            <<Record(titles[i], urls[i], SummaryOf(s_resps[i]))>> \o results,
            Append(log, Exchange(Request("summary", titles[i], 0), s_resps[i])))

RECURSIVE SummaryLoop(_, _, _, _, _, _)
\* lines 43-54: for title, url in zip(titles, urls), from pair i on
SummaryLoop(titles, urls, s_resps, i, results, log) ==
    IF i > Min(Len(titles), Len(urls)) THEN [results |-> results, log |-> log]
    ELSE SummaryLoop(titles, urls, s_resps, i + 1,
            Append(results, Record(titles[i], urls[i], SummaryOf(s_resps[i]))),
            Append(log, Exchange(Request("summary", titles[i], 0), s_resps[i])))

\* Fetch without the test of lines 22-23
FetchAnyQuery(query, n_results, resp, s_resps) ==
    LET search == Exchange(Request("search", query, n_results), resp)
    IN  IF SearchExcept(resp)
        THEN [raised |-> FALSE, value |-> <<>>, log |-> <<search>>]
        ELSE IF SubscriptRaises(resp.body)
             THEN [raised |-> TRUE, value |-> <<>>, log |-> <<search>>]
        ELSE LET loop == SummaryLoop(resp.body.elems[2], resp.body.elems[4],
                                     s_resps, 1, <<>>, <<search>>)
             IN  [raised |-> FALSE, value |-> loop.results, log |-> loop.log]

\* Fetch with a second attempt of a search request that failed
FetchRetry(query, n_results, resp, s_resps) ==
    LET search == Exchange(Request("search", query, n_results), resp)
    IN  IF query = "" THEN [raised |-> FALSE, value |-> <<>>, log |-> <<>>]
        ELSE IF SearchExcept(resp)
             THEN [raised |-> FALSE, value |-> <<>>, log |-> <<search, search>>]
        ELSE IF SubscriptRaises(resp.body)
             THEN [raised |-> TRUE, value |-> <<>>, log |-> <<search>>]
        ELSE LET loop == SummaryLoop(resp.body.elems[2], resp.body.elems[4],
                                     s_resps, 1, <<>>, <<search>>)
             IN  [raised |-> FALSE, value |-> loop.results, log |-> loop.log]

\* lines 22-55.  resp is the answer to the search request, s_resps[i] the
\* answer to the i-th summary request.  The result says whether the call
\* raised, the records of the returned tuple and the requests issued.
Fetch(query, n_results, resp, s_resps) ==
    LET search == Exchange(Request("search", query, n_results), resp)
    IN  IF query = "" THEN [raised |-> FALSE, value |-> <<>>, log |-> <<>>]
        ELSE IF SearchExcept(resp)
             THEN [raised |-> FALSE, value |-> <<>>, log |-> <<search>>]
        ELSE IF SubscriptRaises(resp.body)
             THEN [raised |-> TRUE, value |-> <<>>, log |-> <<search>>]
        ELSE LET loop == SummaryLoop(resp.body.elems[2], resp.body.elems[4],
                                     s_resps, 1, <<>>, <<search>>)
             IN  [raised |-> FALSE, value |-> loop.results, log |-> loop.log]

\* ------------------------------------------------------------------ state
VARIABLES
    cache,       \* the lru_cache: entries in recency order, least recent first
    heap,        \* the record dicts: heap[a] is the dict at address a
    held,        \* the lists the caller still holds, most recent first
    lastKey,     \* (query, n_results) of the last call, NoKey before any call
    raised,      \* the last call raised instead of returning
    result,      \* the records of the list the last call returned, as returned
    log,         \* the requests the last call issued, in order, with answers
    hit,         \* the last call was answered by the cache
    uses,        \* keys now cached, in the order of their last use by a call
    evictedBy,   \* for every key ever evicted: the key whose insertion did it
    callParity   \* number of calls so far, modulo 2

vars == <<cache, heap, held, lastKey, raised, result, log, hit, uses, evictedBy, callParity>>

State == [cache |-> cache, heap |-> heap, held |-> held, lastKey |-> lastKey,
          raised |-> raised, result |-> result, log |-> log, hit |-> hit,
          uses |-> uses, evictedBy |-> evictedBy, callParity |-> callParity]

\* -------------------------------------------------------------- helpers
Range(s) == {s[i] : i \in DOMAIN s}
\* a function on 1..n as the tuple it is equal to
AsTuple(f) == f \o <<>>
RemoveAt(s, i) == SubSeq(s, 1, i - 1) \o SubSeq(s, i + 1, Len(s))
Without(s, x) == LET keep(y) == y # x IN SelectSeq(s, keep)
KeysOf(c) == {c[i].key : i \in DOMAIN c}
IndexOf(c, key) == CHOOSE i \in DOMAIN c : c[i].key = key
Deref(h, addrs) == AsTuple([i \in DOMAIN addrs |-> h[addrs[i]]])

RECURSIVE Flatten(_)
Flatten(ss) == IF ss = <<>> THEN <<>> ELSE Head(ss) \o Flatten(Tail(ss))

RECURSIVE Dedup(_, _)
\* s without repetitions, first occurrences kept in order
Dedup(s, acc) ==
    IF s = <<>> THEN acc
    ELSE Dedup(Tail(s), IF Head(s) \in Range(acc) THEN acc ELSE Append(acc, Head(s)))

\* the addresses the cached tuples and the held lists refer to, in order
Refs(c, hd) ==
    LET some(addrs) == addrs # <<>>
    IN  Flatten(SelectSeq(AsTuple([i \in DOMAIN c |-> c[i].val]), some)
                \o [j \in DOMAIN hd |-> hd[j].list])

\* Addresses are names only.  Objects no reference reaches are collected and
\* the live ones are renumbered in the order the references reach them (the
\* cached tuples first, in cache order, then the held lists), which keeps
\* every alias and gives one representative per heap shape.
Renumber(c, h, hd, order) ==
    LET new(a) == CHOOSE n \in DOMAIN order : order[n] = a
        move(addrs) == AsTuple([k \in DOMAIN addrs |-> new(addrs[k])])
    IN  [cache |-> AsTuple([i \in DOMAIN c |-> [c[i] EXCEPT !.val = move(@)]]),
         heap |-> AsTuple([n \in DOMAIN order |-> h[order[n]]]),
         held |-> AsTuple([j \in DOMAIN hd |-> [hd[j] EXCEPT !.list = move(@)]])]

Compact(c, h, hd) == Renumber(c, h, hd, Dedup(Refs(c, hd), <<>>))

\* --------------------------------------------------- functools.lru_cache
\* A miss whose function call gave f: an exception propagates and nothing is
\* stored; a returned tuple is stored as most recent, after dropping the
\* least recent entry when maxsize entries are held.  `orig` remembers the
\* records as first stored.
lru_miss(c, h, key, f) ==
    IF f.raised
    THEN [hit |-> FALSE, raised |-> TRUE, cache |-> c, heap |-> h,
          val |-> <<>>, log |-> f.log]
    ELSE [hit |-> FALSE, raised |-> FALSE,
          cache |-> Append(IF Len(c) >= maxsize THEN Tail(c) ELSE c,
                           [key |-> key,
                            val |-> AsTuple([i \in DOMAIN f.value |-> Len(h) + i]),
                            orig |-> f.value]),
          heap |-> h \o f.value,
          val |-> AsTuple([i \in DOMAIN f.value |-> Len(h) + i]),
          log |-> f.log]

\* lru_hit that leaves the entry where it is (first in, first out)
lru_hit_in_place(c, h, i) ==
    [hit |-> TRUE, raised |-> FALSE, cache |-> c,
     heap |-> h, val |-> c[i].val, log |-> <<>>]

\* A hit on entry i: the entry becomes the most recent one and the cached
\* tuple itself is returned.
lru_hit(c, h, i) ==
    [hit |-> TRUE, raised |-> FALSE, cache |-> Append(RemoveAt(c, i), c[i]),
     heap |-> h, val |-> c[i].val, log |-> <<>>]

\* lru_cache behind a test for the empty query made before the cache
lru_cache_after_test(c, h, key, resp, s_resps) ==
    IF key.query = ""
    THEN [hit |-> FALSE, raised |-> FALSE, cache |-> c, heap |-> h,
          val |-> <<>>, log |-> <<>>]
    ELSE IF \E i \in DOMAIN c : c[i].key = key
    THEN lru_hit(c, h, IndexOf(c, key))
    ELSE lru_miss(c, h, key, Fetch(key.query, key.n_results, resp, s_resps))

\* line 13: one call of the decorated function with arguments key
lru_cache(c, h, key, resp, s_resps) ==
    IF \E i \in DOMAIN c : c[i].key = key
    THEN lru_hit(c, h, IndexOf(c, key))
    ELSE lru_miss(c, h, key, Fetch(key.query, key.n_results, resp, s_resps))

\* ------------------------------------------------------ open_book_search
\* DeepCopyAll as list(...): a new list of the cached dicts themselves
ListOnly(h, addrs) == [heap |-> h, list |-> addrs]

\* line 72: [copy.deepcopy(r) for r in ...]: a new list of new dicts, each
\* with the fields of the cached dict (the field values are strings)
DeepCopyAll(h, addrs) ==
    [heap |-> h \o [i \in DOMAIN addrs |->
                      Record(h[addrs[i]].title, h[addrs[i]].url, h[addrs[i]].summary)],
     list |-> AsTuple([i \in DOMAIN addrs |-> Len(h) + i])]

\* The state after a call: r is what the cache layer did, m the cache, heap
\* and held lists after the call, value the records handed to the caller and
\* gone the keys the call evicted.
AfterCall(s, key, r, m, value, gone) ==
    [cache |-> m.cache, heap |-> m.heap, held |-> m.held,
     lastKey |-> key,
     raised |-> r.raised,
     result |-> value,
     log |-> r.log,
     hit |-> r.hit,
     uses |-> IF r.raised THEN s.uses
              ELSE LET kept(k) == k \notin gone
                   IN  SelectSeq(Append(Without(s.uses, key), key), kept),
     evictedBy |-> [k \in gone |-> key] @@ s.evictedBy,
     callParity |-> 1 - s.callParity]

\* The caller receives the new list cp.list and keeps it, with the MaxHeld - 1
\* lists it received last.
Return(s, key, r, cp) ==
    AfterCall(s, key, r,
              Compact(r.cache, cp.heap,
                      SubSeq(<<[key |-> key, list |-> cp.list]>> \o s.held, 1,
                             Min(MaxHeld, Len(s.held) + 1))),
              Deref(cp.heap, cp.list),
              KeysOf(s.cache) \ KeysOf(r.cache))

Propagate(s, key, r) ==
    IF r.raised
    THEN AfterCall(s, key, r, [cache |-> r.cache, heap |-> r.heap, held |-> s.held],
                   <<>>, {})
    ELSE Return(s, key, r, DeepCopyAll(r.heap, r.val))

\* lines 58-72 on state s: the state after open_book_search(key.query,
\* key.n_results) when the network answers resp and s_resps
open_book_search(s, key, resp, s_resps) ==
    Propagate(s, key, lru_cache(s.cache, s.heap, key, resp, s_resps))

Cold == [cache |-> <<>>, heap |-> <<>>, held |-> <<>>, lastKey |-> NoKey,
         raised |-> FALSE, result |-> <<>>, log |-> <<>>, hit |-> FALSE,
         uses |-> <<>>, evictedBy |-> <<>>, callParity |-> 0]

Install(s) ==
    /\ cache = s.cache /\ heap = s.heap /\ held = s.held /\ lastKey = s.lastKey
    /\ raised = s.raised /\ result = s.result /\ log = s.log /\ hit = s.hit
    /\ uses = s.uses /\ evictedBy = s.evictedBy /\ callParity = s.callParity

Init == Install(Cold)

\* ------------------------------------------------------- the environment
\* Answers the Wikipedia endpoints can give to one request.
TitleLists == SeqsUpTo(Titles, MaxResults)
UrlLists == {[i \in 1..n |-> <<"u1", "u2", "u3", "u4">>[i]] : n \in 0..MaxResults}

SearchFailures ==
    {Raises("conn_error"), Raises("timeout"),
     Response("ok", 500, NotJson), Response("ok", 200, NotJson)}
MisShaped(q) ==
    {Response("ok", 200, JsonObject(<<>>)),
     Response("ok", 200, JsonArray(<<(<<q>>), <<"A">>>>))}
WellShaped(q, tls, uls) == {Response("ok", 200, OpenSearch(q, t, u)) : t \in tls, u \in uls}

SummaryFailures ==
    {Raises("timeout"), Response("ok", 404, JsonObject(<<"sA">>)), Response("ok", 200, NotJson)}
SummaryOdd == {Response("ok", 200, JsonObject(<<>>)), Response("ok", 200, JsonArray(<<>>))}
SummaryGood == {Response("ok", 200, JsonObject(<<e>>)) : e \in Extracts}

\* the number of (title, url) pairs a search answer carries
Pairs(resp) ==
    IF resp.net = "ok" /\ resp.body.kind = "array" /\ Len(resp.body.elems) >= 4
    THEN Min(Len(resp.body.elems[2]), Len(resp.body.elems[4]))
    ELSE 0

\* ---------------------------------------------------------------- actions
\* The caller calls open_book_search(key.query, key.n_results); the network
\* answers the search request with resp and the i-th summary request with
\* s_resps[i].
Call(key, resp, s_resps) ==
    \E s \in {open_book_search(State, key, resp, s_resps)} :
        /\ cache' = s.cache /\ heap' = s.heap /\ held' = s.held
        /\ lastKey' = s.lastKey /\ raised' = s.raised /\ result' = s.result
        /\ log' = s.log /\ hit' = s.hit /\ uses' = s.uses
        /\ evictedBy' = s.evictedBy /\ callParity' = s.callParity

history == <<lastKey, raised, result, log, hit, uses, evictedBy, callParity>>

\* What a caller can do with a list it was returned (line 71: "callers
\* don't mutate the cached objects"): overwrite a field of a record, ...
Fields == {"summary"}
SetField(j, i, f) ==
    /\ j \in DOMAIN held /\ i \in DOMAIN held[j].list
    /\ heap[held[j].list[i]][f] # "x"
    /\ heap' = [heap EXCEPT ![held[j].list[i]][f] = "x"]
    /\ UNCHANGED <<cache, held, history>>

\* ... delete a record from the list, ...
DeleteRecord(j, i) ==
    /\ j \in DOMAIN held /\ i \in DOMAIN held[j].list
    /\ \E m \in {Compact(cache, heap, [held EXCEPT ![j].list = RemoveAt(@, i)])} :
           cache' = m.cache /\ heap' = m.heap /\ held' = m.held
    /\ UNCHANGED history

\* ... or add a record of its own to the list.
AppendRecord(j) ==
    /\ j \in DOMAIN held
    /\ \A i \in DOMAIN held[j].list : heap[held[j].list[i]] # Record("x", "x", "x")
    /\ \E m \in {Compact(cache, Append(heap, Record("x", "x", "x")),
                            [held EXCEPT ![j].list = Append(@, Len(heap) + 1)])} :
           cache' = m.cache /\ heap' = m.heap /\ held' = m.held
    /\ UNCHANGED history

\* Any call with a key of keys, answered by one of answers[key.query] and by
\* summaries of s_answers.
Calls(keys, answers, s_answers) ==
    \E key \in keys : \E resp \in answers[key.query] :
        \E s_resps \in [1..Pairs(resp) -> s_answers] :
            Call(key, resp, s_resps)

NarrowAnswers ==
    [q \in Queries |->
        {Raises("timeout"), Response("ok", 500, NotJson), Response("ok", 200, NotJson)}
        \cup MisShaped(q)
        \cup {Response("ok", 200, OpenSearch(q, <<"A", "B">>, <<"u1", "u2">>))}]
NarrowSummaries == {Response("ok", 200, JsonObject(<<"sA">>))}

AllAnswers ==
    [q \in Queries |->
        SearchFailures \cup MisShaped(q) \cup WellShaped(q, TitleLists, UrlLists)]
AllSummaries == SummaryFailures \cup SummaryOdd \cup SummaryGood

Mutate ==
    \E j \in 1..MaxHeld :
        \/ \E i \in 1..Len(heap) : \E f \in Fields : SetField(j, i, f)
        \/ \E i \in 1..Len(heap) : DeleteRecord(j, i)
        \/ AppendRecord(j)

Next ==
    \/ Calls(Keys, NarrowAnswers, NarrowSummaries)
    \/ Mutate

Spec == Init /\ [][Next]_vars

\* The calls alone: the first call can be answered in every way the endpoints
\* can answer, the calls after it as in Next.
FirstCall == lastKey = NoKey /\ Calls(Keys, AllAnswers, AllSummaries)
LaterCall == lastKey # NoKey /\ Calls(Keys, NarrowAnswers, NarrowSummaries)
NextNet == FirstCall \/ LaterCall
SpecNet == Init /\ [][NextNet]_vars

\* The cache one entry short of full: the state after open_book_search("a")
\* answered with two titles, followed by maxsize - 2 calls with an empty query
\* and n_results = 4, 5, ... while the network is down.
RECURSIVE Run(_, _)
\* the state after the calls of script, in order, from state s; a call that
\* raises ends the script
Run(s, script) ==
    IF script = <<>> \/ s.raised THEN s
    ELSE IF Len(script) = 1
         THEN open_book_search(s, script[1].key, script[1].resp, script[1].s_resps)
    ELSE Run(Run(s, SubSeq(script, 1, Len(script) \div 2)),
             SubSeq(script, Len(script) \div 2 + 1, Len(script)))

WarmScript ==
    <<[key |-> Key("a", n_results_default),
       resp |-> Response("ok", 200, OpenSearch("a", <<"A", "B">>, <<"u1", "u2">>)),
       s_resps |-> <<Response("ok", 200, JsonObject(<<"sA">>)),
                     Response("ok", 200, JsonObject(<<"sB">>))>>]>>
    \o [i \in 1..(maxsize - 2) |->
          [key |-> Key("", n_results_default + i), resp |-> Raises("conn_error"),
           s_resps |-> <<>>]]
Warm == Run(Cold, WarmScript)

InitWarm == Install(Warm)
NextWarm == Calls(WideKeys, NarrowAnswers, NarrowSummaries)
SpecWarm == InitWarm /\ [][NextWarm]_vars

\* ================================================================ claims
\* Vocabulary of the claims.
Called == lastKey # NoKey
CallStep == callParity' # callParity
Cached(key) == \E i \in DOMAIN cache : cache[i].key = key
Stored(key) == cache[IndexOf(cache, key)].orig
CachedAddrs == UNION {Range(cache[i].val) : i \in DOMAIN cache}

\* The search request succeeded: an answer arrived, with a success status
\* and the payload [query, titles, descriptions, urls].  Anything else is a
\* failure (network error, non-success status, malformed payload).
SearchSucceeded(resp) ==
    /\ resp.net = "ok" /\ resp.status < 400
    /\ resp.body.kind = "array" /\ Len(resp.body.elems) >= 4
TitlesOf(resp) == resp.body.elems[2]
UrlsOf(resp) == resp.body.elems[4]

\* A summary request succeeded with an extract / failed (exception, non-200
\* status, unparsable body).
SummarySucceeded(resp) ==
    /\ resp.net = "ok" /\ resp.status = 200
    /\ resp.body.kind = "object" /\ resp.body.extract # <<>>
SummaryFailed(resp) ==
    \/ resp.net # "ok" \/ resp.status # 200 \/ resp.body.kind = "notjson"

\* the last call was a miss that issued a search request
Searched == Called /\ ~hit /\ log # <<>>

\* ---------------------------------------------------------------------
\* C1: two calls in a row with the same non-empty query and the same count
\* both return, return equal results, and the second issues no request,
\* whatever the network answered to the first.
C1_RepeatedCall ==
    [][(CallStep /\ Called /\ lastKey' = lastKey /\ lastKey.query # "")
         => (~raised /\ ~raised' /\ result' = result /\ log' = <<>>)]_vars

\* C2: no call ever raises.
C2_NeverRaises == ~raised

\* C3: a call whose search request failed in any way returned the empty
\* sequence and left the empty result cached under its key.
C3_FailureCached ==
    (Searched /\ ~SearchSucceeded(log[1].resp))
        => (~raised /\ result = <<>> /\ Cached(lastKey) /\ Stored(lastKey) = <<>>)

\* C4: copy isolation.  Every cached tuple still holds the records first
\* stored, no list a caller holds shares a record with the cache or with
\* another held list, and a call served from the cache returned the records
\* first stored.
C4_CopyIsolation ==
    /\ \A i \in DOMAIN cache : Deref(heap, cache[i].val) = cache[i].orig
    /\ \A j \in DOMAIN held : Range(held[j].list) \cap CachedAddrs = {}
    /\ \A j, k \in DOMAIN held : j # k => Range(held[j].list) \cap Range(held[k].list) = {}
    /\ (Called /\ hit) => (~raised /\ Cached(lastKey) /\ result = Stored(lastKey))

\* the caller changed the list an earlier call with the same arguments
\* returned, and the last call was served from the cache
C4_Witness ==
    /\ Called /\ hit /\ result # <<>>
    /\ Len(held) >= 2 /\ held[2].key = lastKey
    /\ Deref(heap, held[2].list) # result
    /\ Deref(heap, held[1].list) = result

\* C5: a call with an empty query returns the empty sequence and issues no
\* request, whatever the count and whatever the cache holds.
C5_EmptyQuery ==
    (Called /\ lastKey.query = "") => (~raised /\ result = <<>> /\ log = <<>>)

\* an empty query missed a full cache that holds records of another query
C5_Witness ==
    /\ Called /\ lastKey.query = "" /\ ~hit
    /\ Len(cache) = maxsize /\ CachedAddrs # {}

\* C6: the search request succeeded with as many titles as urls and every
\* summary request succeeded: the call returned exactly one record per title,
\* in the order of the titles, each with its url and its own extract.
C6_AllSummaries ==
    (/\ Searched /\ SearchSucceeded(log[1].resp)
     /\ Len(TitlesOf(log[1].resp)) = Len(UrlsOf(log[1].resp))
     /\ \A i \in 2..Len(log) : SummarySucceeded(log[i].resp))
        => (/\ ~raised
            /\ Len(log) = 1 + Len(TitlesOf(log[1].resp))
            /\ result = [i \in 1..Len(TitlesOf(log[1].resp)) |->
                            Record(TitlesOf(log[1].resp)[i], UrlsOf(log[1].resp)[i],
                                   log[i + 1].resp.body.extract[1])])

\* two different titles, each with its own extract
C6_Witness ==
    /\ Searched /\ SearchSucceeded(log[1].resp) /\ Len(log) = 3 /\ Len(result) = 2
    /\ \A i \in 2..Len(log) : SummarySucceeded(log[i].resp)
    /\ result[1].title # result[2].title /\ result[1].summary # result[2].summary

\* C7: partial degradation.  The search request succeeded and some summary
\* request failed: the call returned, every pair still has its record with
\* its title and url, a failed summary is the empty string, a summary that
\* succeeded is its extract, and every summary request was issued.
C7_PartialDegradation ==
    (/\ Searched /\ SearchSucceeded(log[1].resp)
     /\ \E i \in 2..Len(log) : SummaryFailed(log[i].resp))
        => LET n == Min(Len(TitlesOf(log[1].resp)), Len(UrlsOf(log[1].resp)))
           IN  /\ ~raised /\ Len(log) = 1 + n /\ Len(result) = n
               /\ \A i \in 1..n :
                    /\ result[i].title = TitlesOf(log[1].resp)[i]
                    /\ result[i].url = UrlsOf(log[1].resp)[i]
                    /\ SummaryFailed(log[i + 1].resp) => result[i].summary = ""
                    /\ SummarySucceeded(log[i + 1].resp)
                          => result[i].summary = log[i + 1].resp.body.extract[1]

\* the first summary failed with a non-200 status and the second succeeded
C7_Witness ==
    /\ Searched /\ SearchSucceeded(log[1].resp) /\ Len(log) = 3 /\ Len(result) = 2
    /\ log[2].resp.net = "ok" /\ log[2].resp.status # 200
    /\ SummarySucceeded(log[3].resp)
    /\ result[1].summary = "" /\ result[2].summary # ""

\* C8: the cache never holds more than maxsize keys, each once; a call never
\* drops a key while there is room; a miss that stores into a full cache
\* drops exactly the least recently used key.
C8_LruBound ==
    [][/\ Len(cache') <= maxsize
       /\ Cardinality(KeysOf(cache')) = Len(cache')
       /\ (CallStep /\ Len(cache) < maxsize) => KeysOf(cache) \subseteq KeysOf(cache')
       /\ (CallStep /\ hit') => KeysOf(cache') = KeysOf(cache)
       /\ (CallStep /\ ~hit' /\ ~raised' /\ Len(cache) = maxsize)
             => KeysOf(cache') = (KeysOf(cache) \ {uses[1]}) \cup {lastKey'}
      ]_vars

\* the entry stored first was used again by a hit, and the entry stored
\* second was evicted in its place
C8_Witness ==
    /\ Cached(WarmScript[1].key) /\ Len(cache) = maxsize
    /\ DOMAIN evictedBy = {WarmScript[2].key}

\* C9: a miss for a non-empty query issues the search request first and once;
\* when it fails no summary request follows, otherwise one summary request
\* per (title, url) pair follows, in the order of the titles.
C9_RequestOrder ==
    (Called /\ ~hit /\ lastKey.query # "")
        => /\ Len(log) >= 1
           /\ log[1].req = Request("search", lastKey.query, lastKey.n_results)
           /\ \A i \in 2..Len(log) : log[i].req.endpoint = "summary"
           /\ IF SearchSucceeded(log[1].resp)
              THEN LET n == Min(Len(TitlesOf(log[1].resp)), Len(UrlsOf(log[1].resp)))
                   IN  /\ Len(log) = 1 + n
                       /\ \A i \in 1..n : log[i + 1].req.arg = TitlesOf(log[1].resp)[i]
              ELSE Len(log) = 1

\* a miss that issued two summary requests, for two different titles
C9_Witness ==
    /\ Called /\ ~hit /\ Len(log) = 3
    /\ log[2].req.arg # log[3].req.arg

\* C10: a call with an empty query is cached like any other: its key is in
\* the cache afterwards as the most recent entry, a miss adds an entry while
\* there is room and otherwise drops the least recent entry, whatever query
\* that entry belongs to.
C10_EmptyQueryCached ==
    [][(CallStep /\ lastKey'.query = "")
         => /\ Cached(lastKey)' /\ cache'[Len(cache')].key = lastKey'
            /\ (~hit' /\ Len(cache) < maxsize) => Len(cache') = Len(cache) + 1
            /\ (~hit' /\ Len(cache) = maxsize)
                  => (Len(cache') = maxsize /\ cache[1].key \notin KeysOf(cache'))
      ]_vars

\* a call with an empty query evicted the entry of a non-empty query, and the
\* next call for that query went to the network again
C10_Witness ==
    /\ Called /\ lastKey.query # "" /\ ~hit /\ log # <<>>
    /\ lastKey \in DOMAIN evictedBy
    /\ evictedBy[lastKey].query = ""

====
